---- MODULE Spec2Model ----
(***************************************************************************)
(* Trace sinks of ethcore/src/trace: the broker publisher                  *)
(* (MqStreamingTracer, streaming_tracer.rs) and the proxy tracer           *)
(* (ProxyTracer, proxy_tracer.rs).                                         *)
(*                                                                         *)
(* Spec      : one MqStreamingTracer, from construction through the Tracer *)
(*             calls made on it.                                           *)
(* ProxySpec : one ProxyTracer with its two boxed members.                 *)
(***************************************************************************)
EXTENDS Integers, Sequences, FiniteSets, TLC

\* ------------------------------------------------------------------------
\* Bounds
\* ------------------------------------------------------------------------
MaxEvents == 4
MaxDepth == 2
MaxProxyEvents == 3
MaxPushes == 3
MaxNavigations == 2

\* ------------------------------------------------------------------------
\* Values
\* ------------------------------------------------------------------------
None == [tag |-> "None"]
Some(x) == [tag |-> "Some", v |-> x]

\* Address::new(): the all-zero address
ZeroAddress == 0
Addresses == {1, 2}

\* ActionValue::Transfer(v) | ActionValue::Apparent(v); value() yields v
Transfer(n) == [kind |-> "Transfer", amount |-> n]
Apparent(n) == [kind |-> "Apparent", amount |-> n]
ActionValue_value(av) == av.amount

\* Byte strings are written as their hex text: "" is the empty slice.
ByteStrings == {"", "c0de"}

\* ActionParams values handed in by the engine (fields read by the tracer).
ParamsCall ==
    [code_address |-> 1, sender |-> 2, address |-> 1, origin |-> 2,
     gas |-> 100000, gas_price |-> 3, value |-> Transfer(5),
     data |-> Some("c0de"), call_type |-> "Call"]
ParamsDelegate ==
    [code_address |-> 2, sender |-> 1, address |-> 1, origin |-> 1,
     gas |-> 7, gas_price |-> 1, value |-> Apparent(9),
     data |-> Some(""), call_type |-> "DelegateCall"]
ParamsCreate ==
    [code_address |-> 2, sender |-> 1, address |-> 2, origin |-> 2,
     gas |-> 53000, gas_price |-> 2, value |-> Transfer(0),
     data |-> None, call_type |-> "None"]
CallParamsSet == {ParamsCall, ParamsDelegate}
CreateParamsSet == {ParamsCreate}
ParamsSet == CallParamsSet \cup CreateParamsSet

\* Arguments of the exit, self-destruct and reward calls.
CallResults ==
    {[gas_used |-> 21000, output |-> ""], [gas_used |-> 4, output |-> "c0de"]}
CreateResults ==
    {[gas_used |-> 32000, code |-> "c0de", address |-> 1],
     [gas_used |-> 4, code |-> "", address |-> 2]}
VmErrors == {"OutOfGas"}
Suicides ==
    {[address |-> 1, balance |-> 100, refund_address |-> 2],
     [address |-> 2, balance |-> 0, refund_address |-> 2]}
Rewards ==
    {[author |-> 1, value |-> 100, reward_type |-> "Block"],
     [author |-> 2, value |-> 3, reward_type |-> "Uncle"]}

\* ------------------------------------------------------------------------
\* MqStreamingPayload
\* ------------------------------------------------------------------------
DefaultPayload ==
    [code_address |-> ZeroAddress, from |-> ZeroAddress, to |-> ZeroAddress,
     origin |-> ZeroAddress, gas |-> 0, gas_price |-> 0, gas_used |-> 0,
     value |-> 0, input_data |-> None, output_data |-> None,
     call_type |-> "None", reward_type |-> "EmptyStep"]

FromActionParams(a) ==
    [code_address |-> a.code_address, from |-> a.sender, to |-> a.address,
     origin |-> a.origin, gas |-> a.gas, gas_price |-> a.gas_price,
     gas_used |-> 0, value |-> ActionValue_value(a.value),
     input_data |-> a.data, output_data |-> None,
     call_type |-> a.call_type, reward_type |-> "EmptyStep"]

\* format!("{}", U256): the decimal digits, most significant first
RECURSIVE FormatU256(_)
FormatU256(n) ==
    IF n < 10 THEN <<n>> ELSE Append(FormatU256(n \div 10), n % 10)

\* format!("{}", Address): the address's display text
FormatAddress(a) == <<"0x", a>>

\* format!("{:?}", tag): the variant's name
FormatDebug(tag) == tag

\* ToJson: every field becomes a Json::String; the two data fields are
\* written as the fixed words "input_data" and "output_data".
ToJson(p) ==
    [code_address |-> FormatAddress(p.code_address),
     from |-> FormatAddress(p.from),
     to |-> FormatAddress(p.to),
     origin |-> FormatAddress(p.origin),
     gas |-> FormatU256(p.gas),
     gas_price |-> FormatU256(p.gas_price),
     gas_used |-> FormatU256(p.gas_used),
     value |-> FormatU256(p.value),
     input_data |-> "input_data",
     output_data |-> "output_data",
     call_type |-> FormatDebug(p.call_type),
     reward_type |-> FormatDebug(p.reward_type)]

\* to_string: the JSON text of to_json()
Payload_to_string(p) == ToJson(p)

\* One basic_publish call on the channel.
Message(body) == [exchange |-> "MqStreamingTracer", routing_key |-> "", body |-> body]

\* ------------------------------------------------------------------------
\* MqStreamingTracer: state
\* ------------------------------------------------------------------------
VARIABLES
    phase,               \* "new" before create(), "constructed" after it
    env_addr,            \* what parsing AMQP_ADDR (or its default) gave
    boot_steps,          \* bootstrap steps attempted, in order
    boot_failed,         \* the step that failed, "none" if all succeeded
    last_action_params,  \* Option<ActionParams>
    client,              \* Option<LapinClient>
    channel,             \* Option<LapinChannel>
    sent,                \* basic_publish calls made on the channel, in order
    sent_by,             \* for each of them, the number of the Tracer call
                         \* that made it (0: create)
    ops,                 \* the Tracer methods called so far, in order
    panic,               \* "none", or the unwrap/expect that panicked
    frames,              \* the engine's open frames (innermost last)
    recent,              \* the most recent enter or exit call
    nested_ok,           \* every exit so far closed an open frame of its kind
    last,                \* what the most recent Tracer call did
    nevents              \* Tracer calls made so far

mqvars == <<phase, env_addr, boot_steps, boot_failed, last_action_params,
            client, channel, sent, sent_by, ops, panic, frames, recent,
            nested_ok,
            last, nevents>>

\* ------------------------------------------------------------------------
\* ProxyTracer: state
\* ------------------------------------------------------------------------
VARIABLES
    proxy_calls,         \* Tracer calls made on the ProxyTracer
    inner_calls,         \* Tracer calls made on inner_tracer
    streaming_calls,     \* Tracer calls made on streaming_tracer
    inner_traces,        \* the FlatTrace records inner_tracer holds
    drained              \* Option<Vec<FlatTrace>>: what drain() returned

proxyvars == <<proxy_calls, inner_calls, streaming_calls, inner_traces, drained>>

\* ------------------------------------------------------------------------
\* ProxyVMTracer / VMTrace tree: state
\* ------------------------------------------------------------------------
VARIABLES
    vm_root,             \* the root VMTrace; every node has subs and operations
    vm_depth,            \* depth of the active node on the last-child path
    vm_pushes,           \* prepare_subtrace calls so far (the newest node's id)
    vm_popped,           \* whether any subtrace was closed so far
    nav,                 \* what the most recent with_trace_in_depth call did
    nnavs                \* with_trace_in_depth calls made so far

navvars == <<vm_root, vm_depth, vm_pushes, vm_popped, nav, nnavs>>

vars == <<mqvars, proxyvars, navvars>>

NoCall == [op |-> "none"]
Call(op, args) == [op |-> op, args |-> args]

EnterOps == {"prepare_trace_call", "prepare_trace_create"}
ExitOps == {"done_trace_call", "done_trace_create", "done_trace_failed"}

Init ==
    /\ phase = "new"
    /\ env_addr = "unread"
    /\ boot_steps = <<>>
    /\ boot_failed = "none"
    /\ last_action_params = None
    /\ client = None
    /\ channel = None
    /\ sent = <<>>
    /\ sent_by = <<>>
    /\ ops = <<>>
    /\ panic = "none"
    /\ frames = <<>>
    /\ recent = [kind |-> "none"]
    /\ nested_ok = TRUE
    /\ last = NoCall
    /\ nevents = 0
    /\ proxy_calls = <<>>
    /\ inner_calls = <<>>
    /\ streaming_calls = <<>>
    /\ inner_traces = <<>>
    /\ drained = None
    /\ vm_root = [id |-> 0, operations |-> <<>>, subs |-> <<>>]
    /\ vm_depth = 0
    /\ vm_pushes = 0
    /\ vm_popped = FALSE
    /\ nav = [op |-> "none"]
    /\ nnavs = 0

\* ------------------------------------------------------------------------
\* MqStreamingTracer::create / create_channel
\* ------------------------------------------------------------------------
EnvAddrs == {"unset", "valid", "malformed"}

\* The future chain of create_channel, in the order its steps run.
BootChainPingFirst == <<"tcp_connect", "client_connect", "create_channel",
                        "basic_publish", "exchange_declare">>

BootChain == <<"tcp_connect", "client_connect", "create_channel",
               "exchange_declare", "basic_publish">>
BootOutcomes == {"none"} \cup {BootChain[i] : i \in 1..Len(BootChain)}

RECURSIVE IndexOf(_, _)
IndexOf(seq, x) ==
    IF seq = <<>> THEN 0
    ELSE IF Head(seq) = x THEN 1
    ELSE LET r == IndexOf(Tail(seq), x) IN IF r = 0 THEN 0 ELSE r + 1

\* Steps attempted when `failed` is the first step to return Err.
StepsRun(failed) ==
    IF failed = "none" THEN BootChain
    ELSE SubSeq(BootChain, 1, IndexOf(BootChain, failed))

Attempted(step, failed) == IndexOf(StepsRun(failed), step) > 0
Succeeded(step, failed) == Attempted(step, failed) /\ step # failed

\* self.channel = Some(channel.clone()) runs in the closure that follows a
\* successful create_channel, before exchange_declare is issued.
ChannelAfterBoot(failed) ==
    IF Succeeded("create_channel", failed) THEN Some("channel") ELSE None

\* std::env::var("AMQP_ADDR").unwrap_or_else(default).parse()
ParseAddr(env) == IF env = "malformed" THEN "Err" ELSE "Ok"

create_channel(env, failed) ==
    /\ env_addr' = ParseAddr(env)
    /\ IF ParseAddr(env) = "Err"
       THEN \* .parse().unwrap() panics
            /\ panic' = "parse_unwrap"
            /\ UNCHANGED <<boot_steps, boot_failed, channel, sent, sent_by>>
       ELSE /\ boot_steps' = StepsRun(failed)
            /\ boot_failed' = failed
            /\ channel' = ChannelAfterBoot(failed)
            /\ sent' = IF Attempted("basic_publish", failed)
                       THEN <<Message("PING")>> ELSE <<>>
            /\ sent_by' = IF Attempted("basic_publish", failed)
                          THEN <<0>> ELSE <<>>
            /\ UNCHANGED panic

create ==
    /\ phase = "new"
    /\ \E env \in EnvAddrs, failed \in BootOutcomes :
          create_channel(env, failed)
    /\ phase' = "constructed"
    /\ last_action_params' = None
    /\ client' = None
    /\ UNCHANGED <<ops, frames, recent, nested_ok, last, nevents>>
    /\ UNCHANGED <<proxyvars, navvars>>

Running == phase = "constructed" /\ panic = "none"

\* ------------------------------------------------------------------------
\* MqStreamingTracer::post_to_channel
\* ------------------------------------------------------------------------
\* What one handler run did: the payload it built (if any), the
\* basic_publish calls it made, the error! lines it wrote, and whether an
\* expect/unwrap in it panicked.
Outcome(payload, msgs, errs, pnc) ==
    [payload |-> payload, msgs |-> msgs, errs |-> errs, panic |-> pnc]

\* ack: whether basic_publish(..).wait() returned Ok; the wait is reached
\* only when there is a channel.
Acks == IF channel = None THEN {TRUE} ELSE BOOLEAN

post_to_channel_unchecked(payload, ack) ==
    Outcome(Some(payload), <<Message(Payload_to_string(payload))>>, <<>>,
            IF ack THEN "none" ELSE "basic_publish_expect")

post_to_channel(payload, ack) ==
    IF channel # None
    THEN Outcome(Some(payload), <<Message(Payload_to_string(payload))>>, <<>>,
                 IF ack THEN "none" ELSE "basic_publish_expect")
    ELSE Outcome(Some(payload), <<>>, <<"Error: post_to_channel FAILED.">>, "none")

Skipped(err) == Outcome(None, <<>>, <<err>>, "none")

\* ------------------------------------------------------------------------
\* The engine's open frames (bookkeeping of the caller, not of the tracer)
\* ------------------------------------------------------------------------
Frame(kind, params) == [kind |-> kind, params |-> params, child |-> None]

PushFrame(kind, params) ==
    LET n == Len(frames) IN
    IF n = 0 THEN <<Frame(kind, params)>>
    ELSE Append([frames EXCEPT ![n].child = Some(params)], Frame(kind, params))

PopFrame == IF frames = <<>> THEN <<>> ELSE SubSeq(frames, 1, Len(frames) - 1)
TopFrame == IF frames = <<>> THEN None ELSE Some(frames[Len(frames)])

\* ------------------------------------------------------------------------
\* impl Tracer for MqStreamingTracer
\* ------------------------------------------------------------------------
CanCall == Running /\ nevents < MaxEvents

Note(op, args, r, popped) ==
    /\ last' = [op |-> op, args |-> args, prev |-> last.op,
                buffer |-> last_action_params,
                recent |-> recent, channel |-> channel, sent_before |-> sent,
                payload |-> r.payload, msgs |-> r.msgs, errs |-> r.errs,
                panic |-> r.panic, frame |-> popped]
    /\ sent' = sent \o r.msgs
    /\ sent_by' = sent_by \o [i \in 1..Len(r.msgs) |-> nevents + 1]
    /\ ops' = Append(ops, op)
    /\ panic' = r.panic
    /\ nevents' = nevents + 1
    /\ UNCHANGED <<phase, env_addr, boot_steps, boot_failed, client, channel>>
    /\ UNCHANGED <<proxyvars, navvars>>

QuietPublishing == post_to_channel(DefaultPayload, TRUE)

Quiet == Outcome(None, <<>>, <<>>, "none")

\* self.last_action_params = Some(params.clone())
BufferKeepFirst(params) ==
    IF last_action_params # None THEN last_action_params ELSE Some(params)

BufferAfterEnter(params) == Some(params)

Mq_prepare_trace_call(params, depth, is_builtin) ==
    /\ CanCall
    /\ Len(frames) < MaxDepth
    /\ last_action_params' = BufferAfterEnter(params)
    /\ frames' = PushFrame("call", params)
    /\ recent' = [kind |-> "enter", op |-> "prepare_trace_call", params |-> params]
    /\ UNCHANGED nested_ok
    /\ Note("prepare_trace_call",
            [params |-> params, depth |-> depth, is_builtin |-> is_builtin],
            Quiet, None)

Mq_prepare_trace_create(params) ==
    /\ CanCall
    /\ Len(frames) < MaxDepth
    /\ last_action_params' = BufferAfterEnter(params)
    /\ frames' = PushFrame("create", params)
    /\ recent' = [kind |-> "enter", op |-> "prepare_trace_create", params |-> params]
    /\ UNCHANGED nested_ok
    /\ Note("prepare_trace_create", [params |-> params], Quiet, None)

CallPayloadNoGasUsed(params, gas_used, output) ==
    [FromActionParams(params) EXCEPT !.output_data = Some(output)]

CallPayload(params, gas_used, output) ==
    [FromActionParams(params) EXCEPT !.gas_used = gas_used,
                                     !.output_data = Some(output)]

CreatePayload(params, gas_used, address) ==
    [FromActionParams(params) EXCEPT !.gas_used = gas_used,
                                     !.code_address = address]

FailedPayload(params) == FromActionParams(params)

\* An exit of a call frame is done_trace_call or done_trace_failed, of a
\* create frame done_trace_create or done_trace_failed.
KindMatches(op, kind) ==
    /\ op = "done_trace_call" => kind = "call"
    /\ op = "done_trace_create" => kind = "create"

\* The statements after the if/else of an exit handler run only when
\* post_to_channel returned, i.e. did not panic.
BufferKeptAfterExit(r) == last_action_params

BufferAfterExit(r) == IF r.panic = "none" THEN None ELSE last_action_params

ExitTail(op, args, r) ==
    /\ last_action_params' = BufferAfterExit(r)
    /\ frames' = PopFrame
    /\ recent' = [kind |-> "exit", op |-> op]
    /\ nested_ok' = (nested_ok /\ frames # <<>> /\ KindMatches(op, frames[Len(frames)].kind))
    /\ Note(op, args, r, TopFrame)

\* The if/else of each exit handler.
done_trace_call_body(gas_used, output, ack) ==
    IF last_action_params # None
    THEN post_to_channel(CallPayload(last_action_params.v, gas_used, output), ack)
    ELSE Skipped("Error: done_trace_call FAILED.")

done_trace_create_body(gas_used, code, address, ack) ==
    IF last_action_params # None
    THEN post_to_channel(CreatePayload(last_action_params.v, gas_used, address), ack)
    ELSE Skipped("Error: done_trace_create FAILED.")

done_trace_failed_body_default(error, ack) ==
    IF last_action_params # None
    THEN post_to_channel(FailedPayload(last_action_params.v), ack)
    ELSE post_to_channel(DefaultPayload, ack)

done_trace_failed_body(error, ack) ==
    IF last_action_params # None
    THEN post_to_channel(FailedPayload(last_action_params.v), ack)
    ELSE Skipped("Error: done_trace_failed FAILED.")

Mq_done_trace_call(gas_used, output, ack) ==
    /\ CanCall
    /\ ExitTail("done_trace_call", [gas_used |-> gas_used, output |-> output],
                done_trace_call_body(gas_used, output, ack))

Mq_done_trace_create(gas_used, code, address, ack) ==
    /\ CanCall
    /\ ExitTail("done_trace_create",
                [gas_used |-> gas_used, code |-> code, address |-> address],
                done_trace_create_body(gas_used, code, address, ack))

Mq_done_trace_failed(error, ack) ==
    /\ CanCall
    /\ ExitTail("done_trace_failed", [error |-> error],
                done_trace_failed_body(error, ack))

SuicidePayloadOverBuffer(address, balance, refund_address) ==
    [(IF last_action_params # None
      THEN FromActionParams(last_action_params.v) ELSE DefaultPayload)
        EXCEPT !.code_address = address,
               !.to = refund_address,
               !.value = balance]

SuicidePayload(address, balance, refund_address) ==
    [DefaultPayload EXCEPT !.code_address = address,
                           !.to = refund_address,
                           !.value = balance]

RewardPayloadOverBuffer(author, value, reward_type) ==
    [(IF last_action_params # None
      THEN FromActionParams(last_action_params.v) ELSE DefaultPayload)
        EXCEPT !.to = author,
               !.value = value,
               !.reward_type = reward_type]

RewardPayload(author, value, reward_type) ==
    [DefaultPayload EXCEPT !.to = author,
                           !.value = value,
                           !.reward_type = reward_type]

Mq_trace_suicide_taking(address, balance, refund_address, ack) ==
    /\ CanCall
    /\ Note("trace_suicide",
            [address |-> address, balance |-> balance,
             refund_address |-> refund_address],
            post_to_channel(SuicidePayload(address, balance, refund_address), ack),
            None)
    /\ last_action_params' = None
    /\ UNCHANGED <<frames, recent, nested_ok>>

Mq_trace_suicide(address, balance, refund_address, ack) ==
    /\ CanCall
    /\ Note("trace_suicide",
            [address |-> address, balance |-> balance,
             refund_address |-> refund_address],
            post_to_channel(SuicidePayload(address, balance, refund_address), ack),
            None)
    /\ UNCHANGED <<last_action_params, frames, recent, nested_ok>>

Mq_trace_reward(author, value, reward_type, ack) ==
    /\ CanCall
    /\ Note("trace_reward",
            [author |-> author, value |-> value, reward_type |-> reward_type],
            post_to_channel(RewardPayload(author, value, reward_type), ack),
            None)
    /\ UNCHANGED <<last_action_params, frames, recent, nested_ok>>

\* ------------------------------------------------------------------------
\* Specification of the publisher
\* ------------------------------------------------------------------------
PrepareCall ==
    \E params \in CallParamsSet, is_builtin \in {FALSE} :
        Mq_prepare_trace_call(params, Len(frames), is_builtin)
PrepareCreate == \E params \in CreateParamsSet : Mq_prepare_trace_create(params)
DoneCall ==
    \E res \in CallResults, ack \in Acks :
        Mq_done_trace_call(res.gas_used, res.output, ack)
DoneCreate ==
    \E res \in CreateResults, ack \in Acks :
        Mq_done_trace_create(res.gas_used, res.code, res.address, ack)
DoneFailed == \E error \in VmErrors, ack \in Acks : Mq_done_trace_failed(error, ack)
Suicide ==
    \E s \in Suicides, ack \in Acks :
        Mq_trace_suicide(s.address, s.balance, s.refund_address, ack)
Reward ==
    \E r \in Rewards, ack \in Acks :
        Mq_trace_reward(r.author, r.value, r.reward_type, ack)

Next ==
    \/ create
    \/ PrepareCall
    \/ PrepareCreate
    \/ DoneCall
    \/ DoneCreate
    \/ DoneFailed
    \/ Suicide
    \/ Reward

Spec == Init /\ [][Next]_vars

\* ------------------------------------------------------------------------
\* ExecutiveTracer (inner_tracer): an accumulator of FlatTrace records, one
\* per frame, self-destruct and reward, handed back by drain; an exit fills
\* in the result of the innermost frame still open.
\* ------------------------------------------------------------------------
RECURSIVE LastOpen(_)
LastOpen(traces) ==
    IF traces = <<>> THEN 0
    ELSE IF traces[Len(traces)].result = None THEN Len(traces)
    ELSE LastOpen(SubSeq(traces, 1, Len(traces) - 1))

ExecutiveTracer_apply(traces, c) ==
    IF c.op \in EnterOps
    THEN Append(traces, [action |-> c, result |-> None])
    ELSE IF c.op \in ExitOps
    THEN LET i == LastOpen(traces) IN
         IF i = 0 THEN traces ELSE [traces EXCEPT ![i].result = Some(c)]
    ELSE Append(traces, [action |-> c, result |-> Some(c)])

ExecutiveTracer_drain(traces) == traces

\* NoopStreamingTracer::drain
NoopStreamingTracer_drain == <<>>

\* ------------------------------------------------------------------------
\* impl Tracer for ProxyTracer
\* ------------------------------------------------------------------------
RECURSIVE OpenFrames(_)
OpenFrames(calls) ==
    IF calls = <<>> THEN 0
    ELSE LET c == calls[Len(calls)]
             n == OpenFrames(SubSeq(calls, 1, Len(calls) - 1))
         IN IF c.op \in EnterOps THEN n + 1
            ELSE IF c.op \in ExitOps THEN n - 1
            ELSE n

ProxyLive == drained = None /\ Len(proxy_calls) < MaxProxyEvents

\* Every method body: one call on self.inner_tracer with the arguments it
\* was given, then an info! line. self.streaming_tracer is not called.
Forward(c) ==
    /\ proxy_calls' = Append(proxy_calls, c)
    /\ inner_calls' = Append(inner_calls, c)
    /\ inner_traces' = ExecutiveTracer_apply(inner_traces, c)
    /\ UNCHANGED <<streaming_calls, drained>>
    /\ UNCHANGED <<mqvars, navvars>>

Proxy_prepare_trace_call(params, depth, is_builtin) ==
    /\ ProxyLive
    /\ depth < MaxDepth
    /\ Forward(Call("prepare_trace_call",
                    [params |-> params, depth |-> depth, is_builtin |-> is_builtin]))

Proxy_prepare_trace_create(params) ==
    /\ ProxyLive
    /\ OpenFrames(proxy_calls) < MaxDepth
    /\ Forward(Call("prepare_trace_create", [params |-> params]))

Proxy_done_trace_call(gas_used, output) ==
    /\ ProxyLive
    /\ OpenFrames(proxy_calls) > 0
    /\ Forward(Call("done_trace_call", [gas_used |-> gas_used, output |-> output]))

Proxy_done_trace_create(gas_used, code, address) ==
    /\ ProxyLive
    /\ OpenFrames(proxy_calls) > 0
    /\ Forward(Call("done_trace_create",
                    [gas_used |-> gas_used, code |-> code, address |-> address]))

Proxy_done_trace_failed(error) ==
    /\ ProxyLive
    /\ OpenFrames(proxy_calls) > 0
    /\ Forward(Call("done_trace_failed", [error |-> error]))

Proxy_trace_suicide(address, balance, refund_address) ==
    /\ ProxyLive
    /\ Forward(Call("trace_suicide",
                    [address |-> address, balance |-> balance,
                     refund_address |-> refund_address]))

Proxy_trace_reward(author, value, reward_type) ==
    /\ ProxyLive
    /\ Forward(Call("trace_reward",
                    [author |-> author, value |-> value, reward_type |-> reward_type]))

\* What drain hands back, given what each member's drain would return.
ProxyTracer_drain_streaming(inner_result, streaming_result) == streaming_result

ProxyTracer_drain(inner_result, streaming_result) == inner_result

Proxy_drain ==
    /\ drained = None
    /\ drained' = Some(ProxyTracer_drain(ExecutiveTracer_drain(inner_traces),
                                         NoopStreamingTracer_drain))
    /\ UNCHANGED <<proxy_calls, inner_calls, streaming_calls, inner_traces>>
    /\ UNCHANGED <<mqvars, navvars>>

\* ------------------------------------------------------------------------
\* Specification of the proxy
\* ------------------------------------------------------------------------
ProxyPrepareCall ==
    \E params \in CallParamsSet, is_builtin \in BOOLEAN :
        Proxy_prepare_trace_call(params, OpenFrames(proxy_calls), is_builtin)
ProxyPrepareCreate == \E params \in CreateParamsSet : Proxy_prepare_trace_create(params)
ProxyDoneCall ==
    \E res \in CallResults : Proxy_done_trace_call(res.gas_used, res.output)
ProxyDoneCreate ==
    \E res \in CreateResults :
        Proxy_done_trace_create(res.gas_used, res.code, res.address)
ProxyDoneFailed == \E error \in VmErrors : Proxy_done_trace_failed(error)
ProxySuicide ==
    \E s \in Suicides : Proxy_trace_suicide(s.address, s.balance, s.refund_address)
ProxyReward ==
    \E r \in Rewards : Proxy_trace_reward(r.author, r.value, r.reward_type)

ProxyNext ==
    \/ ProxyPrepareCall
    \/ ProxyPrepareCreate
    \/ ProxyDoneCall
    \/ ProxyDoneCreate
    \/ ProxyDoneFailed
    \/ ProxySuicide
    \/ ProxyReward
    \/ Proxy_drain

ProxySpec == Init /\ [][ProxyNext]_vars

\* ------------------------------------------------------------------------
\* ProxyVMTracer::with_trace_in_depth
\* ------------------------------------------------------------------------
VMTraceNode(id) == [id |-> id, operations |-> <<>>, subs |-> <<>>]

\* The closures handed in as f: append an operation record to the node, or
\* push a fresh child under it.
Mutations == {[kind |-> "operation"]}
ApplyMutation(trace, f) ==
    IF f.kind = "operation"
    THEN [trace EXCEPT !.operations = Append(@, "op")]
    ELSE [trace EXCEPT !.subs = Append(@, VMTraceNode(f.id))]

\* The outcome of a call: the tree as the call left it, or the panic of
\* subs.last_mut().expect(..), raised before f is reached.
Returned(trace) == [panicked |-> FALSE, trace |-> trace]
Panicked == [panicked |-> TRUE]

RECURSIVE with_trace_in_depth_short(_, _, _)
with_trace_in_depth_short(trace, depth, f) ==
    IF depth <= 1
    THEN Returned(ApplyMutation(trace, f))
    ELSE IF trace.subs = <<>>
    THEN Panicked
    ELSE LET n == Len(trace.subs)
             r == with_trace_in_depth_short(trace.subs[n], depth - 1, f)
         IN IF r.panicked THEN Panicked
            ELSE Returned([trace EXCEPT !.subs[n] = r.trace])

RECURSIVE with_trace_in_depth_lenient(_, _, _)
with_trace_in_depth_lenient(trace, depth, f) ==
    IF depth = 0 \/ trace.subs = <<>>
    THEN Returned(ApplyMutation(trace, f))
    ELSE LET n == Len(trace.subs)
             r == with_trace_in_depth_lenient(trace.subs[n], depth - 1, f)
         IN Returned([trace EXCEPT !.subs[n] = r.trace])

RECURSIVE with_trace_in_depth_rec(_, _, _)
with_trace_in_depth_rec(trace, depth, f) ==
    IF depth = 0
    THEN Returned(ApplyMutation(trace, f))
    ELSE IF trace.subs = <<>>
    THEN Panicked
    ELSE LET n == Len(trace.subs)
             r == with_trace_in_depth_rec(trace.subs[n], depth - 1, f)
         IN IF r.panicked THEN Panicked
            ELSE Returned([trace EXCEPT !.subs[n] = r.trace])

with_trace_in_depth(trace, depth, f) == with_trace_in_depth_rec(trace, depth, f)

\* One call of the navigator on the tree, at any requested depth.
\* Nothing runs after the expect has panicked.
NavLive == IF nav.op = "none" THEN TRUE ELSE ~nav.panicked

Navigate(depth, f) ==
    /\ NavLive
    /\ nnavs < MaxNavigations
    /\ LET r == with_trace_in_depth(vm_root, depth, f)
           after == IF r.panicked THEN vm_root ELSE r.trace
       IN
       /\ nav' = [op |-> "navigate", depth |-> depth, f |-> f,
                  before |-> vm_root, after |-> after, panicked |-> r.panicked,
                  pushes |-> vm_pushes, popped |-> vm_popped]
       /\ vm_root' = after
    /\ nnavs' = nnavs + 1
    /\ UNCHANGED <<vm_depth, vm_pushes, vm_popped>>
    /\ UNCHANGED <<mqvars, proxyvars>>

\* VMTracer::prepare_subtrace: a new child under the active node, which
\* becomes the active node; done_subtrace: back to the parent.
prepare_subtrace ==
    /\ NavLive
    /\ vm_pushes < MaxPushes
    /\ vm_root' = with_trace_in_depth_rec(
                      vm_root, vm_depth, [kind |-> "push", id |-> vm_pushes + 1]).trace
    /\ vm_depth' = vm_depth + 1
    /\ vm_pushes' = vm_pushes + 1
    /\ UNCHANGED <<vm_popped, nav, nnavs>>
    /\ UNCHANGED <<mqvars, proxyvars>>

done_subtrace ==
    /\ NavLive
    /\ vm_depth > 0
    /\ vm_depth' = vm_depth - 1
    /\ vm_popped' = TRUE
    /\ UNCHANGED <<vm_root, vm_pushes, nav, nnavs>>
    /\ UNCHANGED <<mqvars, proxyvars>>

NavigateAny == \E depth \in 0..(MaxPushes + 1), f \in Mutations : Navigate(depth, f)

NavNext ==
    \/ prepare_subtrace
    \/ done_subtrace
    \/ NavigateAny

NavSpec == Init /\ [][NavNext]_vars

\* ========================================================================
\* Properties
\* ========================================================================
Ready == channel # None
Disconnected == channel = None

LastBody == last.msgs[1].body
ErrorLine(op) ==
    CASE op = "done_trace_call" -> "Error: done_trace_call FAILED."
      [] op = "done_trace_create" -> "Error: done_trace_create FAILED."
      [] op = "done_trace_failed" -> "Error: done_trace_failed FAILED."

\* C1: after any well-nested event sequence, each member of the
\* ProxyTracer (inner_tracer and streaming_tracer) has received exactly
\* the calls the ProxyTracer received, in order, with the same arguments.
C1_EveryMemberReceivesEveryCall ==
    /\ inner_calls = proxy_calls
    /\ streaming_calls = proxy_calls

\* C2: what ProxyTracer::drain returns is what inner_tracer's drain
\* returns for the calls relayed to it, content and order unchanged; the
\* streaming member's (empty) drain result adds nothing.
C2_DrainIsInnerDrain ==
    drained # None =>
        /\ inner_calls = proxy_calls
        /\ drained.v = ExecutiveTracer_drain(inner_traces)
        /\ Len(drained.v) =
             Cardinality({i \in 1..Len(proxy_calls) : proxy_calls[i].op \notin ExitOps})

C2_Witness ==
    /\ drained # None
    /\ Len(drained.v) >= 2
    /\ \E i \in 1..Len(drained.v) :
          /\ drained.v[i].result # None
          /\ drained.v[i].result.v.op \in ExitOps

\* C3: when the TCP connect, the broker connect, the channel open or the
\* exchange declare of the bootstrap fails, the constructed publisher
\* holds no channel and every later publish attempt is skipped.
BootstrapSteps == {"tcp_connect", "client_connect", "create_channel", "exchange_declare"}

C3_FailedBootstrapLeavesNoChannel ==
    (phase = "constructed" /\ boot_failed \in BootstrapSteps) =>
        /\ channel = None
        /\ last.op # "none" => last.msgs = <<>>

\* C4: when the TCP connect of the bootstrap fails, the publisher has no
\* channel from construction on; no message is ever published, the one
\* connect attempt is never repeated, every publish attempt writes the
\* post_to_channel error line and nothing else, and no handler panics.
C4_UnreachableStaysDisconnected ==
    (phase = "constructed" /\ boot_failed = "tcp_connect") =>
        /\ channel = None
        /\ sent = <<>>
        /\ panic = "none"
        /\ boot_steps = <<"tcp_connect">>
        /\ (last.op # "none" /\ last.payload # None) =>
              last.errs = <<"Error: post_to_channel FAILED.">>

C4_Witness ==
    /\ boot_failed = "tcp_connect"
    /\ nevents >= 2
    /\ last.op \in ExitOps
    /\ last.payload # None
    /\ last.errs = <<"Error: post_to_channel FAILED.">>

\* C5: when the address string from the environment does not parse,
\* construction completes without a panic and the publisher holds no
\* channel.
C5_MalformedAddressConstructs ==
    (phase = "constructed" /\ env_addr = "Err") =>
        /\ panic = "none"
        /\ channel = None

\* C6: a failed publish on a publisher that holds a channel never aborts:
\* no handler panics on it.
C6_PublishFailureNeverAborts == panic # "basic_publish_expect"

\* C7: an exit call (done_trace_call, done_trace_create, done_trace_failed)
\* made while last_action_params is None publishes nothing, builds no
\* payload, writes only its own error line, does not panic, and leaves
\* last_action_params None.
C7_BufferMiss ==
    (last.op \in ExitOps /\ last.buffer = None) =>
        /\ last.msgs = <<>>
        /\ last.payload = None
        /\ last.errs = <<ErrorLine(last.op)>>
        /\ last.panic = "none"
        /\ panic = "none"
        /\ last_action_params = None
        /\ Len(sent) = Len(last.sent_before)

C7_Witness ==
    /\ last.op = "done_trace_failed"
    /\ last.buffer = None
    /\ Ready
    /\ Len(sent) >= 2
    /\ last.errs = <<"Error: done_trace_failed FAILED.">>

\* The hex text of an optional byte string.
DataText(d) == IF d = None THEN "" ELSE d.v

\* An exit-call that directly answers an enter-call on a publisher that
\* holds a channel.
EnterCallThenExitCall ==
    /\ last.op = "done_trace_call"
    /\ last.recent.kind = "enter"
    /\ last.recent.op = "prepare_trace_call"
    /\ last.channel # None

\* C8 as stated: enter-call(P) then exit-call(g, o) emits exactly one
\* message whose from/to/code address/origin/gas/gas price/value/input/
\* call classification are P's, whose gas_used is g and whose output is o.
C8_EmittedPayloadCarriesAll ==
    EnterCallThenExitCall =>
        LET P == last.recent.params IN
        /\ Len(last.msgs) = 1
        /\ LastBody.from = FormatAddress(P.sender)
        /\ LastBody.to = FormatAddress(P.address)
        /\ LastBody.code_address = FormatAddress(P.code_address)
        /\ LastBody.origin = FormatAddress(P.origin)
        /\ LastBody.gas = FormatU256(P.gas)
        /\ LastBody.gas_price = FormatU256(P.gas_price)
        /\ LastBody.value = FormatU256(P.value.amount)
        /\ LastBody.call_type = P.call_type
        /\ LastBody.gas_used = FormatU256(last.args.gas_used)
        /\ LastBody.input_data = DataText(P.data)
        /\ LastBody.output_data = last.args.output

\* C8 amended: the payload built has all those fields (input = P's input,
\* output = o), and exactly one message is emitted; the message carries
\* from/to/code address/origin/gas/gas price/value/call classification of
\* P and gas_used = g, while its input and output fields are the fixed
\* words "input_data" and "output_data" whatever P's input and o are.
C8_PayloadBuiltAndEmitted ==
    EnterCallThenExitCall =>
        LET P == last.recent.params IN
        /\ Len(last.msgs) = 1
        /\ Len(sent) = Len(last.sent_before) + 1
        /\ sent[Len(sent)] = last.msgs[1]
        /\ last.payload =
             Some([code_address |-> P.code_address, from |-> P.sender,
                   to |-> P.address, origin |-> P.origin, gas |-> P.gas,
                   gas_price |-> P.gas_price, gas_used |-> last.args.gas_used,
                   value |-> P.value.amount, input_data |-> P.data,
                   output_data |-> Some(last.args.output),
                   call_type |-> P.call_type, reward_type |-> "EmptyStep"])
        /\ last.msgs[1].exchange = "MqStreamingTracer"
        /\ LastBody =
             [code_address |-> FormatAddress(P.code_address),
              from |-> FormatAddress(P.sender),
              to |-> FormatAddress(P.address),
              origin |-> FormatAddress(P.origin),
              gas |-> FormatU256(P.gas),
              gas_price |-> FormatU256(P.gas_price),
              gas_used |-> FormatU256(last.args.gas_used),
              value |-> FormatU256(P.value.amount),
              input_data |-> "input_data",
              output_data |-> "output_data",
              call_type |-> P.call_type,
              reward_type |-> "EmptyStep"]

C8_Witness ==
    /\ EnterCallThenExitCall
    /\ last.recent.params = ParamsCall
    /\ last.args = [gas_used |-> 21000, output |-> ""]
    /\ Len(last.msgs) = 1
    /\ LastBody.gas_used = <<2, 1, 0, 0, 0>>
    /\ last.payload.v.output_data = Some("")

\* The fields of a payload that come from the ActionParams it was built
\* from, whichever exit handler built it.
BuiltFrom(payload, P) ==
    /\ payload.from = P.sender
    /\ payload.to = P.address
    /\ payload.origin = P.origin
    /\ payload.gas = P.gas
    /\ payload.gas_price = P.gas_price
    /\ payload.value = P.value.amount
    /\ payload.input_data = P.data
    /\ payload.call_type = P.call_type

\* C9 as stated: whenever a frame had a nested frame entered under it, the
\* exit that closes it (on a publisher holding a channel, in a well-nested
\* sequence) publishes a payload built from the child's parameters.
C9_ParentExitPublishesChild ==
    (/\ last.op \in ExitOps
     /\ nested_ok
     /\ last.channel # None
     /\ last.frame # None
     /\ last.frame.v.child # None) =>
        /\ Len(last.msgs) = 1
        /\ last.payload # None
        /\ BuiltFrom(last.payload.v, last.frame.v.child.v)

\* C9 amended: an enter overwrites the buffered parameters, a parent's
\* included. On a publisher holding a channel the first exit after that
\* enter, with no other enter or exit in between, publishes a payload
\* built from the parameters of that enter (so enter-create(P),
\* enter-call(C), exit-create publishes C's, not P's); an exit that
\* follows another exit with no enter in between, as the parent's exit
\* does once its child has exited, publishes nothing.
C9_NextExitPublishesLatestEnter ==
    /\ last.op \in EnterOps => last_action_params = Some(last.args.params)
    /\ (last.op \in ExitOps /\ last.channel # None /\ last.recent.kind = "enter") =>
          /\ Len(last.msgs) = 1
          /\ last.payload # None
          /\ BuiltFrom(last.payload.v, last.recent.params)
    /\ (last.op \in ExitOps /\ last.recent.kind # "enter") =>
          /\ last.msgs = <<>>
          /\ last.payload = None

C9_Witness ==
    /\ last.op = "done_trace_create"
    /\ last.channel # None
    /\ last.recent.kind = "enter"
    /\ last.recent.op = "prepare_trace_call"
    /\ last.recent.params = ParamsCall
    /\ Len(frames) = 1
    /\ frames[1] = [kind |-> "create", params |-> ParamsCreate, child |-> Some(ParamsCall)]
    /\ Len(last.msgs) = 1
    /\ BuiltFrom(last.payload.v, ParamsCall)
    /\ ~BuiltFrom(last.payload.v, ParamsCreate)

\* C10: on a publisher holding a channel, trace_suicide(A, v, B) publishes
\* exactly one payload with code_address = A, to = B, value = v and every
\* other field at its default, whatever last_action_params holds.
C10_SuicidePayload ==
    (last.op = "trace_suicide" /\ last.channel # None) =>
        /\ Len(last.msgs) = 1
        /\ Len(sent) = Len(last.sent_before) + 1
        /\ last.payload =
             Some([code_address |-> last.args.address, from |-> 0,
                   to |-> last.args.refund_address, origin |-> 0, gas |-> 0,
                   gas_price |-> 0, gas_used |-> 0,
                   value |-> last.args.balance, input_data |-> None,
                   output_data |-> None, call_type |-> "None",
                   reward_type |-> "EmptyStep"])
        /\ LastBody =
             [code_address |-> FormatAddress(last.args.address),
              from |-> FormatAddress(0),
              to |-> FormatAddress(last.args.refund_address),
              origin |-> FormatAddress(0),
              gas |-> <<0>>, gas_price |-> <<0>>, gas_used |-> <<0>>,
              value |-> FormatU256(last.args.balance),
              input_data |-> "input_data", output_data |-> "output_data",
              call_type |-> "None", reward_type |-> "EmptyStep"]
        /\ last_action_params = last.buffer

C10_Witness ==
    /\ last.op = "trace_suicide"
    /\ last.channel # None
    /\ last.buffer = Some(ParamsCall)
    /\ last.args = [address |-> 1, balance |-> 100, refund_address |-> 2]
    /\ Len(last.msgs) = 1
    /\ LastBody.value = <<1, 0, 0>>


\* ------------------------------------------------------------------------
\* Depth navigator
\* ------------------------------------------------------------------------
RECURSIVE NodesOf(_)
NodesOf(t) ==
    {[id |-> t.id, operations |-> t.operations, nsubs |-> Len(t.subs)]}
      \cup UNION {NodesOf(t.subs[i]) : i \in 1..Len(t.subs)}

\* The ids of the nodes a call changed.
ChangedIds(before, after) == {n.id : n \in NodesOf(after) \ NodesOf(before)}

\* How many times one can descend into the last child below t.
RECURSIVE ChainLen(_)
ChainLen(t) ==
    IF t.subs = <<>> THEN 0 ELSE 1 + ChainLen(t.subs[Len(t.subs)])

\* C11: on a tree built by N prepare_subtrace pushes along one path with
\* nothing closed, with_trace_in_depth at depth N mutates exactly the node
\* of the N-th push and no other; at depth 0 it always mutates exactly the
\* root.
C11_NavigatorReachesNthPush ==
    /\ (nav.op = "navigate" /\ ~nav.popped /\ nav.depth = nav.pushes) =>
          /\ ~nav.panicked
          /\ ChangedIds(nav.before, nav.after) = {nav.pushes}
    /\ (nav.op = "navigate" /\ nav.depth = 0) =>
          /\ ~nav.panicked
          /\ ChangedIds(nav.before, nav.after) = {0}

C11_Witness ==
    /\ nav.op = "navigate"
    /\ ~nav.popped
    /\ nav.pushes = 2
    /\ nav.depth = 2
    /\ ChangedIds(nav.before, nav.after) = {2}
    /\ nav.after.subs[1].subs[1].operations = <<"op">>

\* C12: asked for a depth greater than the length of the last-child chain
\* below the root, with_trace_in_depth panics and no node is mutated.
C12_TooDeepPanics ==
    (nav.op = "navigate" /\ nav.depth > ChainLen(nav.before)) =>
        /\ nav.panicked
        /\ nav.after = nav.before
        /\ vm_root = nav.before
        /\ ChangedIds(nav.before, nav.after) = {}

C12_Witness ==
    /\ nav.op = "navigate"
    /\ nav.panicked
    /\ nav.depth = 2
    /\ Len(nav.before.subs) = 2
    /\ ChainLen(nav.before) = 1
    /\ Len(nav.before.subs[1].subs) = 1


\* ------------------------------------------------------------------------
\* Publisher: slot, exits, bootstrap order, standalone events, counting
\* ------------------------------------------------------------------------
StandaloneOps == {"trace_suicide", "trace_reward"}

\* C13: the slot holds at most one ActionParams value; it is the
\* parameters of the most recent enter call while no exit call has been
\* made since, and it is empty after every exit call, published or not.
C13_SingleSlot ==
    /\ last_action_params \in {None} \cup {Some(P) : P \in ParamsSet}
    /\ recent.kind = "enter" => last_action_params = Some(recent.params)
    /\ recent.kind = "exit" => last_action_params = None

\* The payload built from P with the outcome fields at their defaults.
PayloadOf(P) ==
    [code_address |-> P.code_address, from |-> P.sender, to |-> P.address,
     origin |-> P.origin, gas |-> P.gas, gas_price |-> P.gas_price,
     gas_used |-> 0, value |-> P.value.amount, input_data |-> P.data,
     output_data |-> None, call_type |-> P.call_type,
     reward_type |-> "EmptyStep"]

\* C14: on a publisher holding a channel, done_trace_failed with buffered
\* parameters P empties the slot and publishes exactly one payload, built
\* from P with gas_used = 0 and no output, whatever the error is.
C14_ExitFailedConsumesAndPublishes ==
    (last.op = "done_trace_failed" /\ last.buffer # None /\ last.channel # None) =>
        /\ last_action_params = None
        /\ Len(last.msgs) = 1
        /\ last.payload = Some(PayloadOf(last.buffer.v))

\* C15: the bootstrap steps run in the order connect, broker connect,
\* channel open, exchange declare, ping, each at most once and only in
\* create(); the ping is sent only after a successful exchange declare,
\* exactly once when every step succeeded, and it is the first message.
C15_BootstrapOrder ==
    /\ boot_steps =
         SubSeq(<<"tcp_connect", "client_connect", "create_channel",
                  "exchange_declare", "basic_publish">>, 1, Len(boot_steps))
    /\ phase = "new" => (boot_steps = <<>> /\ sent = <<>>)
    /\ \A i \in 1..Len(sent) :
          sent_by[i] = 0 =>
             /\ i = 1
             /\ sent[i].body = "PING"
             /\ Len(boot_steps) = 5
             /\ boot_steps[4] = "exchange_declare"
             /\ boot_failed \in {"none", "basic_publish"}
    /\ (phase = "constructed" /\ env_addr = "Ok" /\ boot_failed = "none") =>
          /\ Len(sent) >= 1
          /\ sent_by[1] = 0
          /\ Cardinality({i \in 1..Len(sent) : sent_by[i] = 0}) = 1
    /\ (phase = "constructed" /\ boot_failed \notin {"none", "basic_publish"}) =>
          \A i \in 1..Len(sent) : sent_by[i] # 0

C15_Witness ==
    /\ boot_failed = "none"
    /\ Len(boot_steps) = 5
    /\ Len(sent) = 3
    /\ sent[1].body = "PING"
    /\ sent_by = <<0, 2, 3>>

\* C16: on a publisher holding a channel, done_trace_create(g, code,
\* new_address) with buffered parameters P empties the slot and publishes
\* exactly one payload, the one built from P except gas_used = g and
\* code_address = new_address; the code bytes are not in it and it has no
\* output.
C16_ExitCreateConsumesAndPublishes ==
    (last.op = "done_trace_create" /\ last.buffer # None /\ last.channel # None) =>
        /\ last_action_params = None
        /\ Len(last.msgs) = 1
        /\ last.payload =
             Some([PayloadOf(last.buffer.v) EXCEPT
                      !.gas_used = last.args.gas_used,
                      !.code_address = last.args.address])

\* C17: on a publisher holding a channel, trace_reward(author, value,
\* reward_type) publishes exactly one payload with to = author, value =
\* value, reward_type = reward_type and every other field at its default,
\* whatever the slot holds, and leaves the slot as it was.
C17_RewardPayload ==
    (last.op = "trace_reward" /\ last.channel # None) =>
        /\ Len(last.msgs) = 1
        /\ Len(sent) = Len(last.sent_before) + 1
        /\ last.payload =
             Some([code_address |-> 0, from |-> 0, to |-> last.args.author,
                   origin |-> 0, gas |-> 0, gas_price |-> 0, gas_used |-> 0,
                   value |-> last.args.value, input_data |-> None,
                   output_data |-> None, call_type |-> "None",
                   reward_type |-> last.args.reward_type])
        /\ LastBody =
             [code_address |-> FormatAddress(0),
              from |-> FormatAddress(0),
              to |-> FormatAddress(last.args.author),
              origin |-> FormatAddress(0),
              gas |-> <<0>>, gas_price |-> <<0>>, gas_used |-> <<0>>,
              value |-> FormatU256(last.args.value),
              input_data |-> "input_data", output_data |-> "output_data",
              call_type |-> "None",
              reward_type |-> last.args.reward_type]
        /\ last_action_params = last.buffer

C17_Witness ==
    /\ last.op = "trace_reward"
    /\ last.channel # None
    /\ last.buffer = Some(ParamsDelegate)
    /\ last.args = [author |-> 2, value |-> 3, reward_type |-> "Uncle"]
    /\ Len(last.msgs) = 1
    /\ LastBody.reward_type = "Uncle"
    /\ LastBody.to = <<"0x", 2>>

\* C18: on a publisher holding a channel, an exit call publishes (exactly
\* one payload) if and only if the most recent enter or exit call before
\* it was an enter; so the exit of a frame with no nested frame publishes,
\* with that frame's parameters, and the exit of a frame that had a nested
\* frame publishes nothing.
C18_ExitPublishesIffAfterEnter ==
    (last.op \in ExitOps /\ last.channel # None) =>
        /\ Len(last.msgs) <= 1
        /\ Len(last.msgs) = 1 <=> last.recent.kind = "enter"
        /\ last.frame # None =>
              /\ Len(last.msgs) = 1 <=> last.frame.v.child = None
              /\ last.frame.v.child = None =>
                    /\ last.payload # None
                    /\ BuiltFrom(last.payload.v, last.frame.v.params)
              /\ last.frame.v.child # None =>
                    /\ last.payload = None
                    /\ last.errs = <<ErrorLine(last.op)>>

C18_Witness ==
    /\ last.op = "done_trace_create"
    /\ nested_ok
    /\ panic = "none"
    /\ last.channel # None
    /\ last.frame # None
    /\ last.frame.v.child # None
    /\ last.msgs = <<>>
    /\ sent_by = <<0, 3>>
    /\ ops = <<"prepare_trace_create", "prepare_trace_call",
               "done_trace_call", "done_trace_create">>

\* C19: trace_suicide and trace_reward leave the slot as it was, so an
\* exit that comes right after one of them publishes, or not, what it
\* would have published without it; and no Tracer call changes channel or
\* client, which are as create() left them.
C19_StandaloneLeaveSlotAndChannel ==
    /\ last.op \in StandaloneOps => last_action_params = last.buffer
    /\ (last.op \in ExitOps /\ last.prev \in StandaloneOps /\ last.channel # None) =>
          /\ Len(last.msgs) = 1 <=> last.recent.kind = "enter"
          /\ last.recent.kind = "enter" =>
                /\ last.payload # None
                /\ BuiltFrom(last.payload.v, last.recent.params)
    /\ last.op # "none" => channel = last.channel
    /\ client = None
    /\ phase = "new" => channel = None
    /\ (phase = "constructed" /\ env_addr = "Ok") =>
          (channel # None <=>
             (Len(boot_steps) >= 3 /\ boot_failed # "create_channel"))

C19_Witness ==
    /\ last.op \in ExitOps
    /\ last.prev = "trace_suicide"
    /\ last.channel # None
    /\ last.recent.kind = "enter"
    /\ Len(last.msgs) = 1
    /\ BuiltFrom(last.payload.v, ParamsCall)
    /\ ops[1] = "prepare_trace_call"

\* C20: enter calls never publish; every exit, self-destruct and reward
\* call publishes at most one message; so the messages sent number at
\* most one ping plus the exit, self-destruct and reward calls made, and
\* they are sent in the order of the calls that caused them.
C20_PublishCountAndOrder ==
    /\ Len(sent_by) = Len(sent)
    /\ last.op \in EnterOps => last.msgs = <<>>
    /\ last.op # "none" => (Len(last.msgs) <= 1 /\ sent = last.sent_before \o last.msgs)
    /\ \A i \in 1..Len(sent) :
          sent_by[i] # 0 =>
             /\ sent_by[i] \in 1..Len(ops)
             /\ ops[sent_by[i]] \notin EnterOps
    /\ \A i, j \in 1..Len(sent) : i < j => sent_by[i] < sent_by[j]
    /\ Len(sent) <= 1 + Cardinality({k \in 1..Len(ops) : ops[k] \notin EnterOps})

C20_Witness ==
    /\ ops = <<"prepare_trace_call", "done_trace_call", "trace_reward", "done_trace_failed">>
    /\ sent_by = <<0, 2, 3>>
    /\ Len(sent) = 3

====
